---- MODULE Spec2Model ----
(***************************************************************************)
(* Model of src/src/app.rs: the duplex audio pipeline of the realtime      *)
(* voice demo.  Three contexts share five mutex-protected cells:           *)
(*   - the audio input callback   (capture, "cap")                         *)
(*   - the audio output callback  (playback, "pb")                         *)
(*   - the event loop             (control, "ctl")                         *)
(* Each atomic step of the model is one lock operation together with the   *)
(* context-local code around it.                                           *)
(*                                                                         *)
(* An f32 sample x is represented by the integer x * F32One, so that the   *)
(* PCM16 conversions are exact integer arithmetic.                         *)
(***************************************************************************)
EXTENDS Integers, Sequences, FiniteSets, TLC

(* ------------------------------ bounds --------------------------------- *)
\* hardware samples the microphone delivers in one run
MaxHw == 4
\* longest hardware input frame (samples of channel 0)
MaxFrame == 3
\* largest frame_count of an output buffer
MaxFrameCount == 3
\* most wire samples PlaybackBuffer holds before the server pauses
MaxPlayback == 3
\* interval timers running at once
MaxTimers == 2
\* longest transcript text the server sends before a new conversation
MaxTranscript == 701

(* --------------------------- program constants ------------------------- *)
\* (clamped * 32767.0) as i16 ; pcm16_sample as f32 / 32767.0
PcmScale == 32767
\* two output slots per wire sample: sample_idx = *pos / 2
UpFactor == 2
\* (0..channel.len()).step_by(2)
DownFactor == 2
\* if self.current_transcript.len() > 500
TranscriptBudget == 500
\* .chars().skip(200)
TranscriptSkip == 200

\* the representation of the f32 value 1.0
F32One == 2 * PcmScale

None == "None"
\* audio_streaming_timer: None, or Some(timer) with a timer id 1, 2, ...
NoTimer == 0

(* ----------------------------- sequences ------------------------------- *)
RECURSIVE Flatten(_)
Flatten(ss) ==
    IF ss = <<>> THEN <<>> ELSE Head(ss) \o Flatten(Tail(ss))

\* Vec::drain(..n): the vector without its first n elements
DrainFront(v, n) == SubSeq(v, n + 1, Len(v))

(* ------------------------ SampleRateConverter -------------------------- *)
\* for i in (0..channel.len()).step_by(2) { recorded.push(channel[i]) }
\* (Rust indices 0,2,4,... are the TLA+ indices 1,3,5,...)
Decimate(channel) ==
    [k \in 1..((Len(channel) + DownFactor - 1) \div DownFactor)
        |-> channel[DownFactor * (k - 1) + 1]]

\* integer division rounding toward zero, as the `as i16` cast truncates
TruncDiv(a, b) == IF a >= 0 THEN a \div b ELSE -((-a) \div b)

Max2(a, b) == IF a >= b THEN a ELSE b
Min2(a, b) == IF a <= b THEN a ELSE b

\* sample.max(-1.0).min(1.0)
Clamp(x) == Min2(Max2(x, -F32One), F32One)

\* (clamped * 32767.0) as i16
ToI16(x) == TruncDiv(Clamp(x) * PcmScale, F32One)

\* i16::to_le_bytes
LeBytes(p) ==
    LET u == IF p < 0 THEN p + 65536 ELSE p
    IN  <<u % 256, u \div 256>>

\* i16::from_le_bytes([lo, hi])
FromLeBytes(lo, hi) ==
    LET u == lo + 256 * hi
    IN  IF u >= 32768 THEN u - 65536 ELSE u

\* a conversion without the clamp: the cast saturates at the bounds of i16
convert_unclamped(samples) ==
    Flatten([i \in 1..Len(samples)
                |-> LeBytes(IF samples[i] > F32One THEN 32767
                            ELSE IF samples[i] < -F32One THEN -32768
                            ELSE TruncDiv(samples[i] * PcmScale, F32One))])

convert_f32_to_pcm16(samples) ==
    Flatten([i \in 1..Len(samples) |-> LeBytes(ToI16(samples[i]))])

\* bytes.chunks_exact(2): a trailing odd byte is ignored
convert_pcm16_to_f32(bytes) ==
    [k \in 1..(Len(bytes) \div 2)
        |-> (FromLeBytes(bytes[2 * k - 1], bytes[2 * k]) * F32One) \div PcmScale]

(* ------------------------------ base64 --------------------------------- *)
\* A base64 text is a sequence of alphabet positions 0..63; Pad is '='.
Pad == 64

B64Group(b) ==
    LET n  == Len(b)
        b1 == b[1]
        b2 == IF n >= 2 THEN b[2] ELSE 0
        b3 == IF n >= 3 THEN b[3] ELSE 0
        v  == b1 * 65536 + b2 * 256 + b3
    IN  << v \div 262144,
           (v \div 4096) % 64,
           IF n >= 2 THEN (v \div 64) % 64 ELSE Pad,
           IF n >= 3 THEN v % 64 ELSE Pad >>

RECURSIVE Base64Encode(_)
\* general_purpose::STANDARD.encode
Base64Encode(bytes) ==
    IF Len(bytes) = 0 THEN <<>>
    ELSE IF Len(bytes) <= 3 THEN B64Group(bytes)
    ELSE B64Group(SubSeq(bytes, 1, 3)) \o Base64Encode(SubSeq(bytes, 4, Len(bytes)))

\* the Err result of a decode: no byte sequence contains -1
B64Err == <<-1>>

\* one group of four characters; the last group may end in one or two pads
B64Ungroup(g, last) ==
    LET npad == IF g[4] = Pad THEN (IF g[3] = Pad THEN 2 ELSE 1) ELSE 0
        c3   == IF g[3] = Pad THEN 0 ELSE g[3]
        c4   == IF g[4] = Pad THEN 0 ELSE g[4]
        v    == g[1] * 262144 + g[2] * 4096 + c3 * 64 + c4
        ok   == /\ g[1] # Pad /\ g[2] # Pad
                /\ (g[3] = Pad => g[4] = Pad)
                /\ (npad > 0 => last)
                \* canonical encoding: the unused trailing bits are zero
                /\ (npad = 2 => g[2] % 16 = 0)
                /\ (npad = 1 => g[3] % 4 = 0)
    IN  IF ~ok THEN B64Err
        ELSE SubSeq(<<v \div 65536, (v \div 256) % 256, v % 256>>, 1, 3 - npad)

RECURSIVE Base64Decode(_)
\* general_purpose::STANDARD.decode: Ok(bytes) or Err
Base64Decode(text) ==
    IF Len(text) = 0 THEN <<>>
    ELSE IF Len(text) < 4 THEN B64Err
    ELSE LET g    == B64Ungroup(SubSeq(text, 1, 4), Len(text) = 4)
             rest == Base64Decode(SubSeq(text, 5, Len(text)))
         IN  IF g = B64Err \/ rest = B64Err THEN B64Err ELSE g \o rest

(* --------------------------- playback drain ---------------------------- *)
Silence(n) == [i \in 1..n |-> 0]

\* usize::saturating_sub
SatSub(a, b) == IF a >= b THEN a - b ELSE 0

\* a drain that leaves the cursor where it was
no_adjust(pos, samples_to_drain) == pos

\* a drain that moves the cursor back by one slot per drained sample
half_adjust(pos, samples_to_drain) == SatSub(pos, samples_to_drain)

\* the adjustment of *pos after playback.drain(..samples_to_drain)
AdjustPos(pos, samples_to_drain) == SatSub(pos, samples_to_drain * UpFactor)

\* a pass that emits a sample once and moves on to the next one
FrameStepOnce(buf, st, frame_idx) ==
    LET sample_idx == st.pos \div UpFactor
    IN  IF sample_idx < Len(buf)
        THEN [st EXCEPT !.out = [st.out EXCEPT ![frame_idx] = buf[sample_idx + 1]],
                        !.pos = st.pos + UpFactor,
                        !.drain = st.drain + 1]
        ELSE [st EXCEPT !.playing = FALSE,
                        !.pos = 0,
                        !.drain = Len(buf),
                        !.brk = TRUE]

\* one pass of `for frame_idx in 0..frame_count`; st.brk is the `break`
FrameStep(buf, st, frame_idx) ==
    LET sample_idx == st.pos \div UpFactor
    IN  IF sample_idx < Len(buf)
        THEN [st EXCEPT !.out = [st.out EXCEPT ![frame_idx] = buf[sample_idx + 1]],
                        !.pos = st.pos + 1,
                        !.drain = IF (st.pos + 1) % UpFactor = 0
                                  THEN st.drain + 1 ELSE st.drain]
        ELSE [st EXCEPT !.playing = FALSE,
                        !.pos = 0,
                        !.drain = Len(buf),
                        !.brk = TRUE]

RECURSIVE FrameLoop(_, _, _, _)
FrameLoop(buf, st, frame_idx, frame_count) ==
    IF frame_idx > frame_count \/ st.brk THEN st
    ELSE FrameLoop(buf, FrameStep(buf, st, frame_idx), frame_idx + 1, frame_count)

\* The body of the audio_output callback once the three locks are held.
\* Result: the new buffer, cursor and flag, the frames written to every
\* channel, and the number of samples drained from the front.
on_playback_frame(buf, pos, playing, frame_count) ==
    IF playing /\ buf # <<>> /\ pos < Len(buf) * UpFactor
    THEN LET st == FrameLoop(buf,
                             [pos |-> pos, playing |-> playing, drain |-> 0,
                              out |-> Silence(frame_count), brk |-> FALSE],
                             1, frame_count)
             ok == st.drain > 0 /\ st.drain <= Len(buf)
         IN  [buf     |-> IF ok THEN DrainFront(buf, st.drain) ELSE buf,
              pos     |-> IF ok THEN AdjustPos(st.pos, st.drain) ELSE st.pos,
              playing |-> st.playing,
              out     |-> st.out,
              drained |-> IF ok THEN st.drain ELSE 0]
    ELSE [buf     |-> buf,
          pos     |-> IF playing /\ buf = <<>> THEN 0 ELSE pos,
          playing |-> IF playing /\ buf = <<>> THEN FALSE ELSE playing,
          out     |-> Silence(frame_count),
          drained |-> 0]

(* ------------------------------- inputs -------------------------------- *)
\* The microphone signal on channel 0: distinct amplitudes, in range, on the
\* boundary and out of range (0.5, -1.5, 1.0, -0.5, ...).
Mic == <<32767, -98301, 65534, -32767, 1, 98301, -65534, 3>>
HwSample(k) == Mic[((k - 1) % Len(Mic)) + 1]
\* the input buffer of a capture callback that starts after `clock` samples
HwFrame(clock, n) == [i \in 1..n |-> HwSample(clock + i)]

\* PCM16 payloads the server sends: none, one sample (1.0), and two samples
\* (-1.0, 0.5) followed by a stray odd byte
DeltaBytes == { <<>>, <<255, 127>>, <<1, 128, 0, 64, 9>> }
\* a text that is not base64 (a pad in the middle)
InvalidDelta == <<1, Pad, 2, 3>>
DeltaTexts == {Base64Encode(b) : b \in DeltaBytes} \cup {InvalidDelta}
ItemIds == {"item_1"}
\* lengths (in one-byte characters) of the transcript deltas the server sends
TranscriptDeltaLens == {MaxTranscript}

(* -------------------------------- state -------------------------------- *)
VARIABLES
    \* Arc<Mutex<..>> cells shared by the three contexts
    recorded_audio, playback_audio, is_recording, is_playing, playback_position,
    \* who holds each mutex: "free", "cap", "pb" or "ctl"
    lock,
    \* audio input callback: position, its input buffer, the loop index i
    cap_pc, cap_frame, cap_i,
    \* audio output callback: position, the output buffer of the invocation
    pb_pc, pb_out,
    \* event loop: position, the event being (or last) handled, the base64
    \* text of the audio delta being handled, the texts handed to the
    \* transport while handling that event
    ctl_pc, ctl_ev, ctl_delta, outbox,
    \* what the handler of an audio delta found: ai_is_responding when the
    \* event arrived, the playback cells when it took the playback lock
    seen,
    \* fields of App owned by the event loop
    websocket, is_connected, conversation_active, current_transcript,
    openai_api_key, audio_streaming_timer, has_sent_audio, ai_is_responding,
    user_is_interrupting, current_assistant_item_id,
    \* the toggle_interruptions check box
    interruptions_enabled,
    \* the platform: the audio devices in use, the interval timers running,
    \* whether the process has panicked
    devices, timers, panicked,
    \* the environment: hardware samples of the frames captured so far (the
    \* next frame carries the samples that follow them); whether the server
    \* and the user have gone quiet
    hw_clock, quiet,
    \* history since the conversation's buffers were cleared: samples pushed,
    \* decimated frames accepted by the capture callback, samples sent
    appended, accepted, sent_audio

pbcells == <<playback_audio, is_playing, playback_position>>
audio == <<recorded_audio, is_recording, pbcells>>
capv  == <<cap_pc, cap_frame, cap_i, hw_clock>>
pbv   == <<pb_pc, pb_out>>
ctlv  == <<ctl_pc, ctl_ev, ctl_delta, outbox, seen>>
conn  == <<websocket, is_connected, openai_api_key>>
turn  == <<conversation_active, ai_is_responding, user_is_interrupting,
           current_assistant_item_id>>
misc  == <<current_transcript, has_sent_audio, audio_streaming_timer, timers>>
sess  == <<conn, turn, misc>>
envv  == <<interruptions_enabled, devices, panicked, quiet>>
hist  == <<appended, accepted, sent_audio>>
vars  == <<audio, lock, capv, pbv, ctlv, sess, envv, hist>>

LR  == "recorded_audio"
LP  == "playback_audio"
LIR == "is_recording"
LIP == "is_playing"
LPP == "playback_position"
Locks == {LR, LP, LIR, LIP, LPP}

NoSeen == [responding |-> FALSE, buf |-> <<>>, pos |-> 0, playing |-> FALSE]

Free(l) == lock[l] = "free"
Acquire(l, who) == [lock EXCEPT ![l] = who]
Release(l) == [lock EXCEPT ![l] = "free"]

\* The two callbacks share no cell and no mutex (the input callback uses
\* is_recording and recorded_audio, the output callback the other three), so
\* each is explored against the event loop on its own: a run has the default
\* input device or the default output device delivering callbacks.
DeviceSets == {{"input"}, {"output"}}

\* App::default() followed by handle_startup: every field at its default,
\* the key read from the environment (set or not)
Init ==
    /\ recorded_audio = <<>> /\ playback_audio = <<>>
    /\ is_recording = FALSE /\ is_playing = FALSE /\ playback_position = 0
    /\ lock = [l \in Locks |-> "free"]
    /\ cap_pc = "idle" /\ cap_frame = <<>> /\ cap_i = 0
    /\ pb_pc = "idle" /\ pb_out = <<>>
    /\ ctl_pc = "idle" /\ ctl_ev = "startup" /\ ctl_delta = <<>> /\ outbox = <<>>
    /\ seen = NoSeen
    /\ websocket = None /\ is_connected = FALSE /\ conversation_active = FALSE
    /\ current_transcript = 0
    /\ openai_api_key \in {None, "key"}
    /\ audio_streaming_timer = NoTimer /\ has_sent_audio = FALSE
    /\ ai_is_responding = FALSE /\ user_is_interrupting = FALSE
    /\ current_assistant_item_id = None
    /\ interruptions_enabled = FALSE
    /\ devices \in DeviceSets /\ timers = {} /\ panicked = FALSE
    /\ hw_clock = 0 /\ quiet = FALSE
    /\ appended = <<>> /\ accepted = <<>> /\ sent_audio = <<>>

(* ----------------------- audio input callback -------------------------- *)
\* is_recording.try_lock() on entry; a failed try ends the invocation and
\* the frame is lost
CapBegin(n) ==
    /\ ~panicked /\ "input" \in devices /\ cap_pc = "idle"
    /\ hw_clock + n <= MaxHw
    /\ cap_i' = 0
    /\ IF Free(LIR)
       THEN /\ lock' = Acquire(LIR, "cap")
            /\ cap_pc' = "c_check"
            /\ cap_frame' = HwFrame(hw_clock, n)
       ELSE /\ lock' = lock
            /\ cap_pc' = "c_ret"
            /\ cap_frame' = <<>>
    /\ UNCHANGED <<audio, hw_clock, pbv, ctlv, sess, envv, hist>>

\* if *is_recording_guard { recorded_audio.try_lock() }
CapTryRecorded ==
    /\ cap_pc = "c_check"
    /\ IF is_recording /\ Free(LR)
       THEN /\ lock' = Acquire(LR, "cap")
            /\ cap_pc' = "c_push"
            /\ accepted' = accepted \o Decimate(cap_frame)
            /\ hw_clock' = hw_clock + Len(cap_frame)
       ELSE /\ lock' = lock
            /\ cap_pc' = "c_end"
            /\ accepted' = accepted
            /\ hw_clock' = hw_clock
    /\ UNCHANGED <<audio, cap_frame, cap_i, pbv, ctlv, sess, envv, appended,
                   sent_audio>>

\* recorded.push(channel[i]) for the next i of step_by(2); the guard on
\* recorded_audio is dropped when the loop ends
CapPush ==
    /\ cap_pc = "c_push"
    /\ IF cap_i < Len(cap_frame)
       THEN /\ recorded_audio' = Append(recorded_audio, cap_frame[cap_i + 1])
            /\ appended' = Append(appended, cap_frame[cap_i + 1])
            /\ cap_i' = cap_i + DownFactor
            /\ UNCHANGED <<lock, cap_pc>>
       ELSE /\ lock' = Release(LR)
            /\ cap_pc' = "c_end"
            /\ UNCHANGED <<recorded_audio, appended, cap_i>>
    /\ UNCHANGED <<is_recording, pbcells, cap_frame, hw_clock, pbv, ctlv, sess,
                   envv, accepted, sent_audio>>

\* the guard on is_recording is dropped last; the callback returns
CapEnd ==
    /\ cap_pc = "c_end"
    /\ lock' = Release(LIR)
    /\ cap_pc' = "idle"
    /\ cap_frame' = <<>> /\ cap_i' = 0
    /\ UNCHANGED <<audio, hw_clock, pbv, ctlv, sess, envv, hist>>

\* the callback returns without having taken a lock
CapReturn ==
    /\ cap_pc = "c_ret"
    /\ cap_pc' = "idle"
    /\ UNCHANGED <<audio, lock, cap_frame, cap_i, hw_clock, pbv, ctlv, sess, envv,
                   hist>>

(* ----------------------- audio output callback ------------------------- *)
\* an output callback that waits for playback_audio: lock() for try_lock()
PbBeginWaits(frame_count) ==
    /\ ~panicked /\ "output" \in devices /\ pb_pc = "idle"
    /\ Free(LP)
    /\ lock' = Acquire(LP, "pb") /\ pb_pc' = "p_pos" /\ pb_out' = pb_out
    /\ UNCHANGED <<audio, capv, ctlv, sess, envv, hist>>

\* output_buffer.zero(); playback_audio.try_lock()
PbBegin(frame_count) ==
    /\ ~panicked /\ "output" \in devices /\ pb_pc = "idle"
    /\ IF Free(LP)
       THEN lock' = Acquire(LP, "pb") /\ pb_pc' = "p_pos" /\ pb_out' = pb_out
       ELSE lock' = lock /\ pb_pc' = "p_ret" /\ pb_out' = Silence(frame_count)
    /\ UNCHANGED <<audio, capv, ctlv, sess, envv, hist>>

\* playback_position.try_lock()
PbTryPosition(frame_count) ==
    /\ pb_pc = "p_pos"
    /\ IF Free(LPP)
       THEN lock' = Acquire(LPP, "pb") /\ pb_pc' = "p_playing" /\ pb_out' = pb_out
       ELSE lock' = lock /\ pb_pc' = "p_rel_playback" /\ pb_out' = Silence(frame_count)
    /\ UNCHANGED <<audio, capv, ctlv, sess, envv, hist>>

\* is_playing.try_lock()
PbTryPlaying(frame_count) ==
    /\ pb_pc = "p_playing"
    /\ IF Free(LIP)
       THEN lock' = Acquire(LIP, "pb") /\ pb_pc' = "p_body" /\ pb_out' = pb_out
       ELSE lock' = lock /\ pb_pc' = "p_rel_pos" /\ pb_out' = Silence(frame_count)
    /\ UNCHANGED <<audio, capv, ctlv, sess, envv, hist>>

\* the body under the three guards; the guard on is_playing is dropped first
PbBody(frame_count) ==
    /\ pb_pc = "p_body"
    /\ LET r == on_playback_frame(playback_audio, playback_position, is_playing,
                                  frame_count)
       IN  /\ playback_audio' = r.buf
           /\ playback_position' = r.pos
           /\ is_playing' = r.playing
           /\ pb_out' = r.out
    /\ lock' = Release(LIP)
    /\ pb_pc' = "p_rel_pos"
    /\ UNCHANGED <<recorded_audio, is_recording, capv, ctlv, sess, envv, hist>>

\* the guard on playback_position is dropped
PbReleasePosition ==
    /\ pb_pc = "p_rel_pos"
    /\ lock' = Release(LPP)
    /\ pb_pc' = "p_rel_playback"
    /\ UNCHANGED <<audio, capv, pb_out, ctlv, sess, envv, hist>>

\* the guard on playback_audio is dropped last
PbReleasePlayback ==
    /\ pb_pc = "p_rel_playback"
    /\ lock' = Release(LP)
    /\ pb_pc' = "p_ret"
    /\ UNCHANGED <<audio, capv, pb_out, ctlv, sess, envv, hist>>

\* the callback returns; the device takes the output buffer
PbReturn ==
    /\ pb_pc = "p_ret"
    /\ pb_pc' = "idle"
    /\ pb_out' = <<>>
    /\ UNCHANGED <<audio, lock, capv, ctlv, sess, envv, hist>>

(* ----------------------------- event loop ------------------------------ *)
\* The event loop takes the next event when it is idle; the server and the
\* user produce events until they go quiet.  A handler's step is the code up
\* to and including one lock acquisition, or the access under a lock together
\* with the drop of its guard.
CtlIdle == ctl_pc = "idle" /\ ~panicked
EnvReady == CtlIdle /\ ~quiet
\* a frame can be polled from the transport the App holds
Inbound == EnvReady /\ websocket # None

\* mutex.lock().unwrap(): waits until the mutex is free
CtlLock(l, held) ==
    /\ Free(l)
    /\ lock' = Acquire(l, "ctl")
    /\ ctl_pc' = held
    /\ UNCHANGED <<audio, capv, pbv, ctl_ev, ctl_delta, seen, outbox, sess, envv, hist>>

\* if let Ok(..) = mutex.try_lock(): never waits
CtlTryLock(l, held, skip) ==
    /\ IF Free(l)
       THEN lock' = Acquire(l, "ctl") /\ ctl_pc' = held
       ELSE lock' = lock /\ ctl_pc' = skip
    /\ UNCHANGED <<audio, capv, pbv, ctl_ev, ctl_delta, seen, outbox, sess, envv, hist>>

\* send_openai_message: the text is handed to the transport if there is one
send_openai_message(box, message) ==
    IF websocket # None THEN Append(box, message) ELSE box

InputAudioBufferAppend(samples) ==
    [type |-> "input_audio_buffer.append",
     audio |-> Base64Encode(convert_f32_to_pcm16(samples))]
SessionUpdate == [type |-> "session.update", audio |-> <<>>]
ResponseCreate == [type |-> "response.create", audio |-> <<>>]

\* a tick that drains and sends whether or not a conversation is active
TimerTickAlways ==
    /\ CtlIdle
    /\ audio_streaming_timer # NoTimer /\ audio_streaming_timer \in timers
    /\ ctl_ev' = "timer"
    /\ outbox' = <<>>
    /\ IF Free(LR)
       THEN lock' = Acquire(LR, "ctl") /\ ctl_pc' = "t_send"
       ELSE lock' = lock /\ ctl_pc' = "t_check"
    /\ UNCHANGED <<audio, capv, pbv, ctl_delta, seen, sess, envv, hist>>

(* the periodic sender: handle_event, Event::Timer *)
\* Event::Timer of the audio_streaming_timer; with a conversation active,
\* send_audio_chunk_to_openai up to self.recorded_audio.try_lock()
TimerTick ==
    /\ CtlIdle
    /\ audio_streaming_timer # NoTimer /\ audio_streaming_timer \in timers
    /\ ctl_ev' = "timer"
    /\ outbox' = <<>>
    /\ IF conversation_active /\ Free(LR)
       THEN lock' = Acquire(LR, "ctl") /\ ctl_pc' = "t_send"
       ELSE lock' = lock /\ ctl_pc' = "t_check"
    /\ UNCHANGED <<audio, capv, pbv, ctl_delta, seen, sess, envv, hist>>

\* a drain that sends the buffer and forgets to clear it
drain_keep(recorded) ==
    [some |-> recorded # <<>>, data |-> recorded, rest |-> recorded]

\* what the locked recorded_audio yields (Some(data) or None) and what is
\* left in it: if !recorded.is_empty() { clone; clear }
drain_capture(recorded) ==
    IF recorded # <<>>
    THEN [some |-> TRUE, data |-> recorded, rest |-> <<>>]
    ELSE [some |-> FALSE, data |-> <<>>, rest |-> recorded]

\* the rest of send_audio_chunk_to_openai
TimerSend ==
    /\ ctl_pc = "t_send"
    /\ LET d == drain_capture(recorded_audio)
       IN  IF d.some
           THEN /\ recorded_audio' = d.rest
                /\ outbox' = send_openai_message(outbox, InputAudioBufferAppend(d.data))
                /\ sent_audio' = sent_audio \o d.data
                /\ has_sent_audio' = TRUE
           ELSE UNCHANGED <<recorded_audio, outbox, sent_audio, has_sent_audio>>
    /\ lock' = Release(LR)
    /\ ctl_pc' = "t_check"
    /\ UNCHANGED <<is_recording, pbcells, capv, pbv, ctl_ev, ctl_delta, seen, conn, turn,
                   current_transcript, audio_streaming_timer, timers, envv,
                   appended, accepted>>

\* self.playback_audio.lock().unwrap()
TimerLockPlayback ==
    /\ ctl_pc = "t_check"
    /\ CtlLock(LP, "t_checking")

\* .is_empty(), then the check box is read
TimerCheckPlayback ==
    /\ ctl_pc = "t_checking"
    /\ lock' = Release(LP)
    /\ ctl_pc' = IF playback_audio = <<>> /\ ~interruptions_enabled
                 THEN "t_resume" ELSE "idle"
    /\ UNCHANGED <<audio, capv, pbv, ctl_ev, ctl_delta, seen, outbox, sess, envv, hist>>

\* if let Ok(mut is_recording) = self.is_recording.try_lock()
TimerTryRecording ==
    /\ ctl_pc = "t_resume"
    /\ CtlTryLock(LIR, "t_resuming", "idle")

\* a tick without the backup resume
no_resume(recording) == recording

\* an auto-resume that does not look at ai_is_responding
resume_while_responding(recording) ==
    IF ~recording /\ conversation_active THEN TRUE ELSE recording

\* the value the auto-resume leaves in is_recording
auto_resume(recording) ==
    IF ~recording /\ conversation_active /\ ~ai_is_responding
    THEN TRUE ELSE recording

TimerResume ==
    /\ ctl_pc = "t_resuming"
    /\ is_recording' = auto_resume(is_recording)
    /\ lock' = Release(LIR)
    /\ ctl_pc' = "idle"
    /\ UNCHANGED <<recorded_audio, pbcells, capv, pbv, ctl_ev, ctl_delta, seen, outbox,
                   sess, envv, hist>>

\* Event::Timer of a timer that is not the audio_streaming_timer (none is
\* set, or the event is of a timer that was stopped or replaced): the timer
\* branch of handle_event does nothing
TimerIgnored(t) ==
    /\ CtlIdle
    /\ t # audio_streaming_timer
    /\ ctl_ev' = "timer_ignored"
    /\ outbox' = <<>>
    /\ UNCHANGED <<audio, lock, capv, pbv, ctl_pc, ctl_delta, seen, sess, envv, hist>>

(* user actions: handle_actions *)
\* connect_to_openai
Connect ==
    /\ EnvReady
    /\ ctl_ev' = "connect"
    /\ outbox' = <<>>
    /\ websocket' = IF openai_api_key = None THEN websocket ELSE "open"
    /\ UNCHANGED <<audio, lock, capv, pbv, ctl_pc, ctl_delta, seen, is_connected,
                   openai_api_key, turn, misc, envv, hist>>

\* reset_all -> stop_conversation, up to self.is_recording.lock().unwrap()
Reset ==
    /\ EnvReady
    /\ Free(LIR)
    /\ ctl_ev' = "reset"
    /\ outbox' = <<>>
    /\ conversation_active' = FALSE
    /\ ai_is_responding' = FALSE
    /\ lock' = Acquire(LIR, "ctl")
    /\ ctl_pc' = "rs_rec"
    /\ UNCHANGED <<audio, capv, pbv, ctl_delta, seen, conn, user_is_interrupting,
                   current_assistant_item_id, misc, envv, hist>>

\* *is_recording = false; cx.stop_timer(*timer); audio_streaming_timer = None
ResetRecording ==
    /\ ctl_pc = "rs_rec"
    /\ is_recording' = FALSE
    /\ lock' = Release(LIR)
    /\ timers' = timers \ {audio_streaming_timer}
    /\ audio_streaming_timer' = NoTimer
    /\ ctl_pc' = "rs_clear"
    /\ UNCHANGED <<recorded_audio, pbcells, capv, pbv, ctl_ev, ctl_delta, seen, outbox,
                   conn, turn, current_transcript, has_sent_audio, envv, hist>>

\* the rest of reset_all after stop_conversation;
\* self.websocket.as_mut().unwrap() panics when no transport was ever opened
ResetTail ==
    /\ is_connected' = FALSE
    /\ has_sent_audio' = FALSE
    /\ current_transcript' = 0
    /\ IF websocket = None
       THEN panicked' = TRUE /\ websocket' = websocket
       ELSE panicked' = FALSE /\ websocket' = "closed"
    /\ ctl_pc' = "idle"
    /\ UNCHANGED <<recorded_audio, is_recording, is_playing, playback_position,
                   capv, pbv, ctl_ev, ctl_delta, seen, outbox, openai_api_key, turn,
                   audio_streaming_timer, timers, interruptions_enabled, devices,
                   quiet, hist>>

\* if let Ok(mut playback) = self.playback_audio.try_lock(); when the try
\* fails nothing is cleared and reset_all goes on
ResetTryPlayback ==
    /\ ctl_pc = "rs_clear"
    /\ IF Free(LP)
       THEN /\ lock' = Acquire(LP, "ctl")
            /\ ctl_pc' = "rs_clearing"
            /\ UNCHANGED <<audio, capv, pbv, ctl_ev, ctl_delta, seen, outbox, sess, envv,
                           hist>>
       ELSE /\ ResetTail
            /\ UNCHANGED <<playback_audio, lock>>

\* playback.clear(), then the rest of reset_all
ResetClearPlayback ==
    /\ ctl_pc = "rs_clearing"
    /\ playback_audio' = <<>>
    /\ lock' = Release(LP)
    /\ ResetTail

\* the check box changed; if enabled, up to self.is_recording.lock().unwrap()
ToggleInterruptions ==
    /\ EnvReady
    /\ ~interruptions_enabled => Free(LIR)
    /\ ctl_ev' = "toggle"
    /\ outbox' = <<>>
    /\ interruptions_enabled' = ~interruptions_enabled
    /\ IF interruptions_enabled'
       THEN lock' = Acquire(LIR, "ctl") /\ ctl_pc' = "tg_rec"
       ELSE lock' = lock /\ ctl_pc' = "idle"
    /\ UNCHANGED <<audio, capv, pbv, ctl_delta, seen, sess, devices, panicked, quiet,
                   hist>>

\* the write of is_recording under its lock
SetRecording(value, next) ==
    /\ is_recording' = value
    /\ lock' = Release(LIR)
    /\ ctl_pc' = next
    /\ UNCHANGED <<recorded_audio, pbcells, capv, pbv, ctl_ev, ctl_delta, seen, outbox,
                   sess, envv, hist>>

\* *self.is_recording.lock().unwrap() = true
ToggleRecording ==
    /\ ctl_pc = "tg_rec"
    /\ SetRecording(TRUE, "idle")

\* transcription_model_selector changed: update_session_config
SelectTranscriptionModel ==
    /\ EnvReady
    /\ ctl_ev' = "select_model"
    /\ outbox' = send_openai_message(<<>>, SessionUpdate)
    /\ UNCHANGED <<audio, lock, capv, pbv, ctl_pc, ctl_delta, seen, sess, envv, hist>>

(* transport events: handle_websocket_messages *)
\* WebSocketMessage::Closed
WsClosed ==
    /\ Inbound
    /\ ctl_ev' = "ws_closed"
    /\ outbox' = <<>>
    /\ is_connected' = FALSE
    /\ conversation_active' = FALSE
    /\ UNCHANGED <<audio, lock, capv, pbv, ctl_pc, ctl_delta, seen, websocket,
                   openai_api_key, ai_is_responding, user_is_interrupting,
                   current_assistant_item_id, misc, envv, hist>>

\* Frames that are only logged: WebSocketMessage::Binary and ::Error; a text
\* that fails to parse; Other, response.audio.done, response.text.delta;
\* conversation.item.created / truncated (status text only)
LoggedOnly == {"ws_binary", "ws_error", "parse_error", "other",
               "response.audio.done", "response.text.delta",
               "conversation.item.created", "conversation.item.truncated"}

\* a frame that is not understood ends the conversation, as Closed does
LoggedDisconnects(ev) ==
    /\ Inbound
    /\ ev \in LoggedOnly
    /\ ctl_ev' = ev
    /\ outbox' = <<>>
    /\ is_connected' = FALSE
    /\ conversation_active' = FALSE
    /\ UNCHANGED <<audio, lock, capv, pbv, ctl_pc, ctl_delta, seen, websocket,
                   openai_api_key, ai_is_responding, user_is_interrupting,
                   current_assistant_item_id, misc, envv, hist>>

Logged(ev) ==
    /\ Inbound
    /\ ev \in LoggedOnly
    /\ ctl_ev' = ev
    /\ outbox' = <<>>
    /\ UNCHANGED <<audio, lock, capv, pbv, ctl_pc, ctl_delta, seen, sess, envv, hist>>

\* session.created: is_connected = true; update_session_config
SessionCreated ==
    /\ Inbound
    /\ ctl_ev' = "session.created"
    /\ is_connected' = TRUE
    /\ outbox' = send_openai_message(<<>>, SessionUpdate)
    /\ UNCHANGED <<audio, lock, capv, pbv, ctl_pc, ctl_delta, seen, websocket,
                   openai_api_key, turn, misc, envv, hist>>

\* a session.updated that starts a conversation whether or not connected
SessionUpdatedAlways ==
    /\ Inbound
    /\ Free(LIR) /\ Cardinality(timers) < MaxTimers
    /\ ctl_ev' = "session.updated"
    /\ outbox' = <<>>
    /\ conversation_active' = TRUE
    /\ ai_is_responding' = FALSE
    /\ lock' = Acquire(LIR, "ctl")
    /\ ctl_pc' = "sc_rec"
    /\ UNCHANGED <<audio, capv, pbv, ctl_delta, seen, conn, user_is_interrupting,
                   current_assistant_item_id, misc, envv, hist>>

\* session.updated: start_conversation, up to self.is_recording.lock()
SessionUpdated ==
    /\ Inbound
    /\ is_connected => Free(LIR) /\ Cardinality(timers) < MaxTimers
    /\ ctl_ev' = "session.updated"
    /\ outbox' = <<>>
    /\ IF is_connected
       THEN /\ conversation_active' = TRUE
            /\ ai_is_responding' = FALSE
            /\ lock' = Acquire(LIR, "ctl")
            /\ ctl_pc' = "sc_rec"
       ELSE UNCHANGED <<conversation_active, ai_is_responding, lock, ctl_pc>>
    /\ UNCHANGED <<audio, capv, pbv, ctl_delta, seen, conn, user_is_interrupting,
                   current_assistant_item_id, misc, envv, hist>>

\* *is_recording = true; self.has_sent_audio = false
StartRecording ==
    /\ ctl_pc = "sc_rec"
    /\ is_recording' = TRUE
    /\ has_sent_audio' = FALSE
    /\ lock' = Release(LIR)
    /\ ctl_pc' = "sc_clear_rec"
    /\ UNCHANGED <<recorded_audio, pbcells, capv, pbv, ctl_ev, ctl_delta, seen, outbox,
                   conn, turn, current_transcript, audio_streaming_timer, timers,
                   envv, hist>>

StartLockRecorded ==
    /\ ctl_pc = "sc_clear_rec"
    /\ CtlLock(LR, "sc_clearing_rec")

\* self.recorded_audio.lock().unwrap().clear()
StartClearRecorded ==
    /\ ctl_pc = "sc_clearing_rec"
    /\ recorded_audio' = <<>>
    /\ appended' = <<>> /\ accepted' = <<>> /\ sent_audio' = <<>>
    /\ lock' = Release(LR)
    /\ ctl_pc' = "sc_clear_pb"
    /\ UNCHANGED <<is_recording, pbcells, capv, pbv, ctl_ev, ctl_delta, seen, outbox,
                   sess, envv>>

StartLockPlayback ==
    /\ ctl_pc = "sc_clear_pb"
    /\ CtlLock(LP, "sc_clearing_pb")

\* self.playback_audio.lock().unwrap().clear()
StartClearPlayback ==
    /\ ctl_pc = "sc_clearing_pb"
    /\ playback_audio' = <<>>
    /\ lock' = Release(LP)
    /\ ctl_pc' = "sc_playing"
    /\ UNCHANGED <<recorded_audio, is_recording, is_playing, playback_position,
                   capv, pbv, ctl_ev, ctl_delta, seen, outbox, sess, envv, hist>>

StartLockPlaying ==
    /\ ctl_pc = "sc_playing"
    /\ CtlLock(LIP, "sc_playing_held")

\* *self.is_playing.lock().unwrap() = false
StartResetPlaying ==
    /\ ctl_pc = "sc_playing_held"
    /\ is_playing' = FALSE
    /\ lock' = Release(LIP)
    /\ ctl_pc' = "sc_pos"
    /\ UNCHANGED <<recorded_audio, is_recording, playback_audio,
                   playback_position, capv, pbv, ctl_ev, ctl_delta, seen, outbox, sess,
                   envv, hist>>

StartLockPosition ==
    /\ ctl_pc = "sc_pos"
    /\ CtlLock(LPP, "sc_pos_held")

\* the timer id cx.start_interval returns: one that is not running
NewTimer == CHOOSE t \in 1..(MaxTimers + 1) : t \notin timers

\* *self.playback_position.lock().unwrap() = 0; the transcript is cleared;
\* create_greeting_response; start_audio_streaming
StartResetPosition ==
    /\ ctl_pc = "sc_pos_held"
    /\ playback_position' = 0
    /\ lock' = Release(LPP)
    /\ current_transcript' = 0
    /\ outbox' = send_openai_message(outbox, ResponseCreate)
    /\ audio_streaming_timer' = NewTimer
    /\ timers' = timers \cup {NewTimer}
    /\ ctl_pc' = "idle"
    /\ UNCHANGED <<recorded_audio, is_recording, playback_audio, is_playing,
                   capv, pbv, ctl_ev, ctl_delta, seen, conn, turn, has_sent_audio, envv,
                   hist>>

(* server events of a turn: handle_openai_message *)
\* the samples a delta text carries, or B64Err when it does not decode
DeltaSamples(text) ==
    LET bytes == Base64Decode(text)
    IN  IF bytes = B64Err THEN B64Err ELSE convert_pcm16_to_f32(bytes)

\* the server pauses while PlaybackBuffer is at its bound
Fits(text) ==
    DeltaSamples(text) = B64Err
        \/ Len(playback_audio) + Len(DeltaSamples(text)) <= MaxPlayback

\* response.audio.delta, up to self.is_recording.lock().unwrap()
ResponseAudioDelta(item_id, delta) ==
    /\ Inbound
    /\ Fits(delta)
    /\ (~user_is_interrupting /\ conversation_active) => Free(LIR)
    /\ ctl_ev' = "response.audio.delta"
    /\ outbox' = <<>>
    /\ IF user_is_interrupting
       THEN UNCHANGED <<current_assistant_item_id, ai_is_responding, ctl_delta, seen,
                        lock, ctl_pc>>
       ELSE /\ current_assistant_item_id' =
                   IF current_assistant_item_id = None
                   THEN item_id ELSE current_assistant_item_id
            /\ ai_is_responding' = TRUE
            /\ ctl_delta' = delta
            /\ seen' = [NoSeen EXCEPT !.responding = ai_is_responding]
            /\ IF conversation_active
               THEN lock' = Acquire(LIR, "ctl") /\ ctl_pc' = "ad_rec"
               ELSE lock' = lock /\ ctl_pc' = "ad_decode"
    /\ UNCHANGED <<audio, capv, pbv, conn, conversation_active,
                   user_is_interrupting, misc, envv, hist>>

\* a delta that leaves the microphone on whatever the toggle says
DeltaRecordingOn ==
    /\ ctl_pc = "ad_rec"
    /\ SetRecording(TRUE, "ad_decode")

\* the microphone is muted during AI speech unless interruptions are enabled
DeltaRecording ==
    /\ ctl_pc = "ad_rec"
    /\ SetRecording(interruptions_enabled, "ad_decode")

\* the guard of add_audio_to_playback: `if !self.ai_is_responding { return }`
push_allowed == ai_is_responding

\* general_purpose::STANDARD.decode(&delta); add_audio_to_playback up to
\* self.playback_audio.try_lock()
DeltaDecode ==
    /\ ctl_pc = "ad_decode"
    /\ IF DeltaSamples(ctl_delta) # B64Err /\ push_allowed /\ Free(LP)
       THEN /\ lock' = Acquire(LP, "ctl")
            /\ ctl_pc' = "ad_playing"
            /\ ctl_delta' = ctl_delta
            /\ seen' = [seen EXCEPT !.buf = playback_audio,
                                    !.pos = playback_position,
                                    !.playing = is_playing]
       ELSE /\ lock' = lock
            /\ ctl_pc' = "idle"
            /\ ctl_delta' = <<>>
            /\ seen' = NoSeen
    /\ UNCHANGED <<audio, capv, pbv, ctl_ev, outbox, sess, envv, hist>>

\* if let Ok(mut is_playing) = self.is_playing.try_lock()
DeltaTryPlaying ==
    /\ ctl_pc = "ad_playing"
    /\ CtlTryLock(LIP, "ad_is_playing", "ad_extend")

\* a push that never clears what an earlier turn left queued
keep_stale(playing, playback) == playback

\* what `if !*is_playing { playback.clear(); .. }` leaves in the buffer
stale_clear(playing, playback) == IF ~playing THEN <<>> ELSE playback

\* if !*is_playing { playback.clear(); .. } else the guard is dropped
DeltaPlaying ==
    /\ ctl_pc = "ad_is_playing"
    /\ playback_audio' = stale_clear(is_playing, playback_audio)
    /\ IF ~is_playing
       THEN ctl_pc' = "ad_pos" /\ lock' = lock
       ELSE ctl_pc' = "ad_extend" /\ lock' = Release(LIP)
    /\ UNCHANGED <<recorded_audio, is_recording, is_playing, playback_position,
                   capv, pbv, ctl_ev, ctl_delta, seen, outbox, sess, envv, hist>>

\* self.playback_position.lock().unwrap(), with both guards held
DeltaLockPosition ==
    /\ ctl_pc = "ad_pos"
    /\ CtlLock(LPP, "ad_pos_held")

\* a push that never drops its guard on playback_position
DeltaPositionKeeps ==
    /\ ctl_pc = "ad_pos_held"
    /\ playback_position' = 0
    /\ is_playing' = TRUE
    /\ lock' = [lock EXCEPT ![LIP] = "free"]
    /\ ctl_pc' = "ad_extend"
    /\ UNCHANGED <<recorded_audio, is_recording, playback_audio, capv, pbv,
                   ctl_ev, ctl_delta, seen, outbox, sess, envv, hist>>

\* *position = 0; *is_playing = true; the is_playing guard is dropped
DeltaPosition ==
    /\ ctl_pc = "ad_pos_held"
    /\ playback_position' = 0
    /\ is_playing' = TRUE
    /\ lock' = [lock EXCEPT ![LPP] = "free", ![LIP] = "free"]
    /\ ctl_pc' = "ad_extend"
    /\ UNCHANGED <<recorded_audio, is_recording, playback_audio, capv, pbv,
                   ctl_ev, ctl_delta, seen, outbox, sess, envv, hist>>

\* playback.extend_from_slice(&samples); the playback guard is dropped
DeltaExtend ==
    /\ ctl_pc = "ad_extend"
    /\ playback_audio' = playback_audio \o DeltaSamples(ctl_delta)
    /\ lock' = Release(LP)
    /\ ctl_delta' = <<>>
    /\ seen' = NoSeen
    /\ ctl_pc' = "idle"
    /\ UNCHANGED <<recorded_audio, is_recording, is_playing, playback_position,
                   capv, pbv, ctl_ev, outbox, sess, envv, hist>>

\* The transcript is its length in bytes; the texts are one-byte characters.
\* push_str; if len() > 500 { chars().skip(200) }
transcript_after(len, delta_len) ==
    IF len + delta_len > TranscriptBudget
    THEN len + delta_len - Min2(TranscriptSkip, len + delta_len)
    ELSE len + delta_len

\* response.audio_transcript.delta
ResponseAudioTranscriptDelta(delta_len) ==
    /\ Inbound
    /\ current_transcript + delta_len <= MaxTranscript
    /\ ctl_ev' = "response.audio_transcript.delta"
    /\ outbox' = <<>>
    /\ ai_is_responding' = TRUE
    /\ current_transcript' = transcript_after(current_transcript, delta_len)
    /\ UNCHANGED <<audio, lock, capv, pbv, ctl_pc, ctl_delta, seen, conn,
                   conversation_active, user_is_interrupting,
                   current_assistant_item_id, has_sent_audio,
                   audio_streaming_timer, timers, envv, hist>>

\* response.done, up to the first lock: is_recording when interruptions are
\* enabled, playback_audio otherwise
ResponseDone ==
    /\ Inbound
    /\ conversation_active => Free(IF interruptions_enabled THEN LIR ELSE LP)
    /\ ctl_ev' = "response.done"
    /\ outbox' = <<>>
    /\ user_is_interrupting' = FALSE
    /\ ai_is_responding' = FALSE
    /\ current_assistant_item_id' = None
    /\ IF ~conversation_active
       THEN UNCHANGED <<lock, ctl_pc>>
       ELSE IF interruptions_enabled
            THEN lock' = Acquire(LIR, "ctl") /\ ctl_pc' = "rd_rec"
            ELSE lock' = Acquire(LP, "ctl") /\ ctl_pc' = "rd_check"
    /\ UNCHANGED <<audio, capv, pbv, ctl_delta, seen, conn, conversation_active, misc,
                   envv, hist>>

\* a response.done that resumes recording whatever is still queued
resume_always(playback) == TRUE

\* whether response.done resumes recording, toggle off
resume_on_done(playback) == playback = <<>>

\* if self.playback_audio.lock().unwrap().is_empty()
ResponseDoneCheck ==
    /\ ctl_pc = "rd_check"
    /\ lock' = Release(LP)
    /\ ctl_pc' = IF resume_on_done(playback_audio) THEN "rd_resume" ELSE "idle"
    /\ UNCHANGED <<audio, capv, pbv, ctl_ev, ctl_delta, seen, outbox, sess, envv, hist>>

ResponseDoneLockRecording ==
    /\ ctl_pc = "rd_resume"
    /\ CtlLock(LIR, "rd_rec")

\* *self.is_recording.lock().unwrap() = true
ResponseDoneRecording ==
    /\ ctl_pc = "rd_rec"
    /\ SetRecording(TRUE, "idle")

\* input_audio_buffer.speech_started, up to self.playback_audio.try_lock()
SpeechStarted ==
    /\ Inbound
    /\ ctl_ev' = "input_audio_buffer.speech_started"
    /\ outbox' = <<>>
    /\ IF Free(LP)
       THEN lock' = Acquire(LP, "ctl") /\ ctl_pc' = "ss_clear"
       ELSE lock' = lock /\ ctl_pc' = "ss_playing"
    /\ UNCHANGED <<audio, capv, pbv, ctl_delta, seen, sess, envv, hist>>

\* playback.clear()
SpeechStartedClear ==
    /\ ctl_pc = "ss_clear"
    /\ playback_audio' = <<>>
    /\ lock' = Release(LP)
    /\ ctl_pc' = "ss_playing"
    /\ UNCHANGED <<recorded_audio, is_recording, is_playing, playback_position,
                   capv, pbv, ctl_ev, ctl_delta, seen, outbox, sess, envv, hist>>

\* if let Ok(mut is_playing) = self.is_playing.try_lock()
SpeechStartedTryPlaying ==
    /\ ctl_pc = "ss_playing"
    /\ CtlTryLock(LIP, "ss_playing_held", "ss_pos")

\* *is_playing = false
SpeechStartedPlaying ==
    /\ ctl_pc = "ss_playing_held"
    /\ is_playing' = FALSE
    /\ lock' = Release(LIP)
    /\ ctl_pc' = "ss_pos"
    /\ UNCHANGED <<recorded_audio, is_recording, playback_audio,
                   playback_position, capv, pbv, ctl_ev, ctl_delta, seen, outbox, sess,
                   envv, hist>>

\* where speech_started goes after the cursor: if self.conversation_active
AfterPosition == IF conversation_active THEN "ss_rec" ELSE "idle"

\* if let Ok(mut position) = self.playback_position.try_lock()
SpeechStartedTryPosition ==
    /\ ctl_pc = "ss_pos"
    /\ CtlTryLock(LPP, "ss_pos_held", AfterPosition)

\* *position = 0
SpeechStartedPosition ==
    /\ ctl_pc = "ss_pos_held"
    /\ playback_position' = 0
    /\ lock' = Release(LPP)
    /\ ctl_pc' = AfterPosition
    /\ UNCHANGED <<recorded_audio, is_recording, playback_audio, is_playing,
                   capv, pbv, ctl_ev, ctl_delta, seen, outbox, sess, envv, hist>>

SpeechStartedLockRecording ==
    /\ ctl_pc = "ss_rec"
    /\ CtlLock(LIR, "ss_rec_held")

\* *self.is_recording.lock().unwrap() = true
SpeechStartedRecording ==
    /\ ctl_pc = "ss_rec_held"
    /\ SetRecording(TRUE, "idle")

\* an event whose whole effect is one write of is_recording when a
\* conversation is active: up to self.is_recording.lock().unwrap()
RecordingEvent(ev, held) ==
    /\ conversation_active => Free(LIR)
    /\ ctl_ev' = ev
    /\ outbox' = <<>>
    /\ IF conversation_active
       THEN lock' = Acquire(LIR, "ctl") /\ ctl_pc' = held
       ELSE lock' = lock /\ ctl_pc' = ctl_pc
    /\ UNCHANGED <<audio, capv, pbv, ctl_delta, seen, sess, envv, hist>>

\* input_audio_buffer.speech_stopped
SpeechStopped ==
    /\ Inbound
    /\ RecordingEvent("input_audio_buffer.speech_stopped", "sp_rec")
SpeechStoppedRecording ==
    /\ ctl_pc = "sp_rec"
    /\ SetRecording(FALSE, "idle")

\* error
ErrorEvent ==
    /\ Inbound
    /\ RecordingEvent("error", "er_rec")
\* an error handler that leaves is_recording as it finds it
ErrorKeepsMuted ==
    /\ ctl_pc = "er_rec"
    /\ SetRecording(is_recording, "idle")

ErrorRecording ==
    /\ ctl_pc = "er_rec"
    /\ SetRecording(TRUE, "idle")

\* the server and the user stop producing events
Quiesce ==
    /\ EnvReady
    /\ quiet' = TRUE
    /\ UNCHANGED <<audio, lock, capv, pbv, ctlv, sess, interruptions_enabled,
                   devices, panicked, hist>>

(* --------------------------- specifications ---------------------------- *)
CapNext ==
    \/ \E n \in 1..MaxFrame : CapBegin(n)
    \/ CapTryRecorded
    \/ CapPush
    \/ CapEnd
    \/ CapReturn

PbNext ==
    \/ \E frame_count \in 1..MaxFrameCount :
          \/ PbBegin(frame_count)
          \/ PbTryPosition(frame_count)
          \/ PbTryPlaying(frame_count)
          \/ PbBody(frame_count)
    \/ PbReleasePosition
    \/ PbReleasePlayback
    \/ PbReturn

TimerNext ==
    \/ TimerTick
    \/ TimerSend
    \/ TimerLockPlayback
    \/ TimerCheckPlayback
    \/ TimerTryRecording
    \/ TimerResume

DeltaNext ==
    \/ \E item_id \in ItemIds, delta \in DeltaTexts : ResponseAudioDelta(item_id, delta)
    \/ DeltaRecording
    \/ DeltaDecode
    \/ DeltaTryPlaying
    \/ DeltaPlaying
    \/ DeltaLockPosition
    \/ DeltaPosition
    \/ DeltaExtend

TurnNext ==
    \/ DeltaNext
    \/ ResponseDone
    \/ ResponseDoneCheck
    \/ ResponseDoneLockRecording
    \/ ResponseDoneRecording
    \/ SpeechStarted
    \/ SpeechStartedClear
    \/ SpeechStartedTryPlaying
    \/ SpeechStartedPlaying
    \/ SpeechStartedTryPosition
    \/ SpeechStartedPosition
    \/ SpeechStartedLockRecording
    \/ SpeechStartedRecording
    \/ SpeechStopped
    \/ SpeechStoppedRecording
    \/ ErrorEvent
    \/ ErrorRecording

StartNext ==
    \/ SessionCreated
    \/ SessionUpdated
    \/ StartRecording
    \/ StartLockRecorded
    \/ StartClearRecorded
    \/ StartLockPlayback
    \/ StartClearPlayback
    \/ StartLockPlaying
    \/ StartResetPlaying
    \/ StartLockPosition
    \/ StartResetPosition

UserNext ==
    \/ Connect
    \/ Reset
    \/ ResetRecording
    \/ ResetTryPlayback
    \/ ResetClearPlayback
    \/ ToggleInterruptions
    \/ ToggleRecording
    \/ SelectTranscriptionModel

OtherNext ==
    \/ WsClosed
    \/ \E t \in 1..(MaxTimers + 1) : TimerIgnored(t)
    \/ \E ev \in LoggedOnly : Logged(ev)
    \/ \E delta_len \in TranscriptDeltaLens : ResponseAudioTranscriptDelta(delta_len)

\* the whole program, from construction
Next == CapNext \/ PbNext \/ TimerNext \/ TurnNext \/ StartNext \/ UserNext \/ OtherNext
Spec == Init /\ [][Next]_vars

\* The state start_conversation leaves (SessionUpdated .. StartResetPosition
\* with the transport open): a conversation that has just begun.
ConvState ==
    /\ recorded_audio = <<>> /\ playback_audio = <<>>
    /\ is_recording = TRUE /\ is_playing = FALSE /\ playback_position = 0
    /\ lock = [l \in Locks |-> "free"]
    /\ cap_pc = "idle" /\ cap_frame = <<>> /\ cap_i = 0
    /\ pb_pc = "idle" /\ pb_out = <<>>
    /\ ctl_pc = "idle" /\ ctl_ev = "session.updated" /\ ctl_delta = <<>>
    /\ outbox = <<ResponseCreate>> /\ seen = NoSeen
    /\ websocket = "open" /\ is_connected = TRUE /\ conversation_active = TRUE
    /\ current_transcript = 0
    /\ openai_api_key = "key"
    /\ audio_streaming_timer = 1 /\ has_sent_audio = FALSE
    /\ ai_is_responding = FALSE /\ user_is_interrupting = FALSE
    /\ current_assistant_item_id = None
    /\ interruptions_enabled \in BOOLEAN
    /\ timers = {1} /\ panicked = FALSE
    /\ hw_clock = 0 /\ quiet = FALSE
    /\ appended = <<>> /\ accepted = <<>> /\ sent_audio = <<>>

ConvInit == ConvState /\ devices \in DeviceSets

\* one conversation: the callbacks, the periodic sender, the server's turn
\* events and the end of the conversation when the transport closes
ConvNext ==
    \/ CapNext \/ PbNext \/ TimerNext \/ TurnNext
    \/ ToggleInterruptions \/ ToggleRecording
    \/ WsClosed
ConvSpec == ConvInit /\ [][ConvNext]_vars

\* playback alone: output callbacks and the audio deltas that push samples
FrameInit == ConvInit /\ "output" \in devices
FrameNext == PbNext \/ DeltaNext
FrameSpec == FrameInit /\ [][FrameNext]_vars

\* A turn with interruptions disabled and both devices running: audio
\* deltas, response.done, the periodic tick and the two callbacks, until the
\* server goes quiet.  It starts when the first audio delta of the
\* conversation has been handled: the microphone muted, the samples queued;
\* an earlier conversation has used the microphone.
ResumeInit ==
    /\ recorded_audio = <<>>
    /\ playback_audio \in {DeltaSamples(t) : t \in DeltaTexts} \ {<<>>, B64Err}
    /\ is_recording = FALSE /\ is_playing = TRUE /\ playback_position = 0
    /\ lock = [l \in Locks |-> "free"]
    /\ cap_pc = "idle" /\ cap_frame = <<>> /\ cap_i = 0
    /\ pb_pc = "idle" /\ pb_out = <<>>
    /\ ctl_pc = "idle" /\ ctl_ev = "response.audio.delta" /\ ctl_delta = <<>>
    /\ outbox = <<>> /\ seen = NoSeen
    /\ websocket = "open" /\ is_connected = TRUE /\ conversation_active = TRUE
    /\ current_transcript = 0
    /\ openai_api_key = "key"
    /\ audio_streaming_timer = 1 /\ has_sent_audio = FALSE
    /\ ai_is_responding = TRUE /\ user_is_interrupting = FALSE
    /\ current_assistant_item_id \in ItemIds
    /\ interruptions_enabled = FALSE
    /\ devices = {"input", "output"} /\ timers = {1} /\ panicked = FALSE
    /\ hw_clock = MaxHw - 1 /\ quiet = FALSE
    /\ appended = <<>> /\ accepted = <<>> /\ sent_audio = <<>>
ResumeNext ==
    \/ CapNext \/ PbNext \/ TimerNext \/ DeltaNext
    \/ ResponseDone \/ ResponseDoneCheck
    \/ ResponseDoneLockRecording \/ ResponseDoneRecording
    \/ Quiesce

\* The interval timer keeps firing and the event loop runs its handler; a
\* callback that was invoked runs to its end; lock() is granted when the
\* mutex is free again and again; a try_lock that finds the mutex free again
\* and again succeeds.
TimerFair ==
    /\ WF_vars(TimerNext)
    /\ SF_vars(TimerLockPlayback)
    /\ SF_vars(TimerTryRecording /\ Free(LIR))
CallbacksFair == WF_vars(CapNext) /\ WF_vars(PbNext)
\* the capture callback, which holds is_recording for microseconds of every
\* hardware period, does not hold it at every tick
CaptureYields ==
    []<>(ctl_pc = "t_resume") => []<>(ctl_pc = "t_resume" /\ Free(LIR))
ResumeSpec ==
    ResumeInit /\ [][ResumeNext]_vars /\ TimerFair /\ CallbacksFair /\ CaptureYields

\* The wait for the assistant's reply: the server has nothing to say after
\* input_audio_buffer.speech_stopped and the user touches nothing, while the
\* periodic tick and the callbacks go on.
AwaitInit == ConvInit
AwaitNext ==
    \/ CapNext \/ PbNext \/ TimerNext
    \/ SpeechStopped \/ SpeechStoppedRecording
AwaitSpec == AwaitInit /\ [][AwaitNext]_vars

\* A conversation in which the interruptions toggle stays off.
MutedInit == ConvInit /\ ~interruptions_enabled
MutedNext == CapNext \/ PbNext \/ TimerNext \/ TurnNext \/ WsClosed
MutedSpec == MutedInit /\ [][MutedNext]_vars

\* The life of a session from construction: connect, the start of a
\* conversation, audio in both directions, the transport closing or failing,
\* and reset.
LifeInit == Init
LifeNext ==
    \/ CapNext \/ PbNext \/ TimerNext \/ DeltaNext \/ StartNext
    \/ Connect
    \/ Reset \/ ResetRecording \/ ResetTryPlayback \/ ResetClearPlayback
    \/ WsClosed
    \/ Logged("ws_error")
    \/ \E t \in 1..(MaxTimers + 1) : TimerIgnored(t)
LifeSpec == LifeInit /\ [][LifeNext]_vars

\* The outbound audio path over the life of a session: the input callback
\* and the periodic sender, from construction through connect, the start of
\* a conversation, the transport closing, reset, and timer events of timers
\* that are no longer the audio_streaming_timer.
SendInit == Init /\ devices = {"input"}
SendNext ==
    \/ CapNext \/ TimerNext \/ StartNext
    \/ Connect
    \/ Reset \/ ResetRecording \/ ResetTryPlayback \/ ResetClearPlayback
    \/ WsClosed
    \/ \E t \in 1..(MaxTimers + 1) : TimerIgnored(t)
SendSpec == SendInit /\ [][SendNext]_vars

\* The assistant's transcript arriving during a conversation, while the
\* microphone is captured and sent.
TranscriptInit == ConvInit
TranscriptNext ==
    \/ CapNext \/ TimerNext
    \/ \E delta_len \in TranscriptDeltaLens : ResponseAudioTranscriptDelta(delta_len)
TranscriptSpec == TranscriptInit /\ [][TranscriptNext]_vars

\* An interrupted reply: input_audio_buffer.speech_started has been handled
\* during the assistant's reply (the queued audio cleared, playback stopped,
\* the microphone on), and until the next response.done the server goes on
\* sending audio deltas of that reply while the output callback runs.
InterruptedInit ==
    /\ recorded_audio = <<>> /\ playback_audio = <<>>
    /\ is_recording = TRUE /\ is_playing = FALSE /\ playback_position = 0
    /\ lock = [l \in Locks |-> "free"]
    /\ cap_pc = "idle" /\ cap_frame = <<>> /\ cap_i = 0
    /\ pb_pc = "idle" /\ pb_out = <<>>
    /\ ctl_pc = "idle" /\ ctl_ev = "input_audio_buffer.speech_started"
    /\ ctl_delta = <<>> /\ outbox = <<>> /\ seen = NoSeen
    /\ websocket = "open" /\ is_connected = TRUE /\ conversation_active = TRUE
    /\ current_transcript = 0
    /\ openai_api_key = "key"
    /\ audio_streaming_timer = 1 /\ has_sent_audio = FALSE
    /\ ai_is_responding = TRUE /\ user_is_interrupting = FALSE
    /\ current_assistant_item_id \in ItemIds
    /\ interruptions_enabled \in BOOLEAN
    /\ devices = {"output"} /\ timers = {1} /\ panicked = FALSE
    /\ hw_clock = 0 /\ quiet = FALSE
    /\ appended = <<>> /\ accepted = <<>> /\ sent_audio = <<>>
InterruptedNext == PbNext \/ DeltaNext
InterruptedSpec == InterruptedInit /\ [][InterruptedNext]_vars

\* a reply in progress while the server also sends frames the program only
\* logs: the callbacks, the periodic sender, audio deltas and logged frames
DropInit == ConvInit
DropNext ==
    \/ CapNext \/ PbNext \/ TimerNext \/ DeltaNext
    \/ \E ev \in LoggedOnly : Logged(ev)
DropSpec == DropInit /\ [][DropNext]_vars

\* A reply with interruptions disabled in which the server also reports the
\* user's speech (speech_started, speech_stopped) before it goes quiet; the
\* timer and the callbacks are scheduled as in ResumeSpec.
QuietInit == ResumeInit
QuietNext ==
    \/ CapNext \/ PbNext \/ TimerNext
    \/ ResponseDone \/ ResponseDoneCheck
    \/ ResponseDoneLockRecording \/ ResponseDoneRecording
    \/ SpeechStarted \/ SpeechStartedClear
    \/ SpeechStartedTryPlaying \/ SpeechStartedPlaying
    \/ SpeechStartedTryPosition \/ SpeechStartedPosition
    \/ SpeechStartedLockRecording \/ SpeechStartedRecording
    \/ SpeechStopped \/ SpeechStoppedRecording
    \/ Quiesce
\* the event loop holds a playback mutex for microseconds of a tick or a
\* handler: the output device, which invokes its callback every period, does
\* not invoke it only while playback_audio is held, and a try_lock of the
\* callback that finds its mutex free again and again succeeds
PlaybackYields ==
    /\ []<>(pb_pc = "idle") => []<>(pb_pc = "idle" /\ Free(LP))
    /\ SF_vars(\E frame_count \in 1..MaxFrameCount : PbBegin(frame_count) /\ Free(LP))
    /\ SF_vars(\E frame_count \in 1..MaxFrameCount : PbTryPosition(frame_count) /\ Free(LPP))
    /\ SF_vars(\E frame_count \in 1..MaxFrameCount : PbTryPlaying(frame_count) /\ Free(LIP))
QuietSpec ==
    /\ QuietInit /\ [][QuietNext]_vars
    /\ TimerFair /\ CallbacksFair /\ CaptureYields /\ PlaybackYields

\* Every handler that waits for a mutex, from a connected session: the start
\* of conversations, audio deltas of one sample, response.done,
\* speech_started, the periodic sender and reset, with the callbacks running
\* (output periods of two frames).  A handler that can go on does go on, also when the
\* mutex it waits for is free only from time to time; a callback that was
\* invoked runs to its end.  An earlier conversation has used the microphone.
LockInit ==
    /\ recorded_audio = <<>> /\ playback_audio = <<>>
    /\ is_recording = FALSE /\ is_playing = FALSE /\ playback_position = 0
    /\ lock = [l \in Locks |-> "free"]
    /\ cap_pc = "idle" /\ cap_frame = <<>> /\ cap_i = 0
    /\ pb_pc = "idle" /\ pb_out = <<>>
    /\ ctl_pc = "idle" /\ ctl_ev = "session.created" /\ ctl_delta = <<>>
    /\ outbox = <<SessionUpdate>> /\ seen = NoSeen
    /\ websocket = "open" /\ is_connected = TRUE /\ conversation_active = FALSE
    /\ current_transcript = 0
    /\ openai_api_key = "key"
    /\ audio_streaming_timer = NoTimer /\ has_sent_audio = FALSE
    /\ ai_is_responding = FALSE /\ user_is_interrupting = FALSE
    /\ current_assistant_item_id = None
    /\ interruptions_enabled \in BOOLEAN
    /\ devices \in DeviceSets /\ timers = {} /\ panicked = FALSE
    /\ hw_clock = MaxHw - 1 /\ quiet = FALSE
    /\ appended = <<>> /\ accepted = <<>> /\ sent_audio = <<>>
LockNext ==
    \/ CapNext \/ TimerNext \/ StartNext
    \/ \E frame_count \in {UpFactor} :
          \/ PbBegin(frame_count)
          \/ PbTryPosition(frame_count)
          \/ PbTryPlaying(frame_count)
          \/ PbBody(frame_count)
    \/ PbReleasePosition \/ PbReleasePlayback \/ PbReturn
    \/ \E item_id \in ItemIds : ResponseAudioDelta(item_id, Base64Encode(<<255, 127>>))
    \/ DeltaRecording \/ DeltaDecode \/ DeltaTryPlaying \/ DeltaPlaying
    \/ DeltaLockPosition \/ DeltaPosition \/ DeltaExtend
    \/ ResponseDone \/ ResponseDoneCheck
    \/ ResponseDoneLockRecording \/ ResponseDoneRecording
    \/ SpeechStarted \/ SpeechStartedClear
    \/ SpeechStartedTryPlaying \/ SpeechStartedPlaying
    \/ SpeechStartedTryPosition \/ SpeechStartedPosition
    \/ SpeechStartedLockRecording \/ SpeechStartedRecording
    \/ Reset \/ ResetRecording \/ ResetTryPlayback \/ ResetClearPlayback
HandlerStep == ctl_pc # "idle" /\ LockNext /\ ctl_pc' # ctl_pc
LockSpec ==
    /\ LockInit /\ [][LockNext]_vars
    /\ SF_vars(HandlerStep) /\ CallbacksFair

(* ------------------------------ properties ----------------------------- *)
\* the step on which the handler of event ev returns
Returns(ev) == ctl_ev = ev /\ ctl_pc # "idle" /\ ctl_pc' = "idle"

\* a step the event loop takes inside the handler of event ev
Handling(ev) == ctl_ev = ev /\ ctl_pc # "idle" /\ ctl_pc' # ctl_pc

\* C1, as stated: when the handler of input_audio_buffer.speech_started
\* returns, PlaybackBuffer is empty, is_playing is false and the cursor is 0,
\* whatever the playback callback is doing at that moment.
C1_SpeechStartedStopsPlayback ==
    [][Returns("input_audio_buffer.speech_started")
          => playback_audio' = <<>> /\ ~is_playing' /\ playback_position' = 0]_vars

\* C2, as stated: the handler of a response.audio.delta that arrived while
\* ai_is_responding was false changes none of PlaybackBuffer, is_playing and
\* the cursor.
C2_StrayDeltaLeavesPlayback ==
    [][(Handling("response.audio.delta") /\ ~seen.responding)
          => UNCHANGED pbcells]_vars

\* C3: from the arrival of response.done in an active conversation to the
\* return of its handler, ai_is_responding and user_is_interrupting are false
\* and current_assistant_item_id is None; the handler returns with
\* is_recording true when the toggle is on or PlaybackBuffer is empty, and
\* with is_recording as it was when the toggle is off and PlaybackBuffer is
\* not empty; no step before the return changes is_recording.
C3_ResponseDone ==
    [][(/\ conversation_active
        /\ ctl_ev' = "response.done"
        /\ (ctl_pc # "idle" \/ ctl_pc' # "idle"))
          => /\ ~ai_is_responding' /\ ~user_is_interrupting'
             /\ current_assistant_item_id' = None
             /\ IF ctl_pc' = "idle"
                THEN IF interruptions_enabled \/ playback_audio = <<>>
                     THEN is_recording'
                     ELSE is_recording' = is_recording
                ELSE is_recording' = is_recording]_vars

\* C3 witness: response.done was handled with the toggle off while audio was
\* still queued, and the microphone stayed muted
C3_Witness ==
    /\ ctl_ev = "response.done" /\ ctl_pc = "idle"
    /\ conversation_active /\ ~interruptions_enabled
    /\ playback_audio # <<>> /\ ~is_recording
    /\ ~ai_is_responding /\ ~user_is_interrupting
    /\ current_assistant_item_id = None

\* C5: a push that took the playback lock and found is_playing false ends
\* with PlaybackBuffer holding exactly the pushed samples, the cursor at 0 and
\* is_playing true, whatever the buffer held; one that found is_playing true
\* ends with the samples appended to what the buffer held and the cursor
\* where it was.
C5_PushPlayback ==
    [][(ctl_pc = "ad_extend" /\ ctl_pc' = "idle")
          => LET S == DeltaSamples(ctl_delta)
             IN  IF seen.playing
                 THEN /\ playback_audio' = seen.buf \o S
                      /\ playback_position' = seen.pos
                      /\ is_playing'
                 ELSE /\ playback_audio' = S
                      /\ playback_position' = 0
                      /\ is_playing']_vars

\* C5 witness: a push found samples of an earlier turn with is_playing false,
\* has discarded them and reset the cursor, and is about to append its own
C5_Witness ==
    /\ ctl_pc = "ad_extend"
    /\ ~seen.playing /\ seen.buf # <<>>
    /\ DeltaSamples(ctl_delta) # <<>>
    /\ playback_audio = <<>> /\ playback_position = 0 /\ is_playing

\* C5, as stated: the same, and a push called while is_playing is true
\* appends its samples whether or not the playback lock is free.
C5_PushWhilePlayingAppends ==
    [][/\ (ctl_pc = "ad_extend" /\ ctl_pc' = "idle")
             => LET S == DeltaSamples(ctl_delta)
                IN  IF seen.playing
                    THEN playback_audio' = seen.buf \o S
                    ELSE playback_audio' = S
       /\ (/\ ctl_pc = "ad_decode" /\ ctl_pc' = "idle"
           /\ DeltaSamples(ctl_delta) # B64Err
           /\ is_playing)
             => playback_audio' = playback_audio \o DeltaSamples(ctl_delta)]_vars

\* C6: with nothing but output callbacks and pushes acting on an initially
\* empty PlaybackBuffer, the cursor never exceeds twice the buffer's length.
C6_CursorWithinBuffer == playback_position <= 2 * Len(playback_audio)

\* C6 witness: an output callback with an odd frame count has returned with
\* the cursor inside the first of several queued samples
C6_Witness ==
    /\ pb_pc = "p_ret"
    /\ playback_position = 1
    /\ Len(playback_audio) > 1
    /\ \E i \in DOMAIN pb_out : pb_out[i] # 0

\* C7: an output callback that holds the three locks leaves the cursor at 0
\* or 1; it prunes from the front exactly the samples both of whose slots
\* are behind the advanced cursor, and when it emitted anything the cursor is
\* the advanced cursor less twice the number pruned.
C7_DrainLeavesNoConsumedSample ==
    [][(pb_pc = "p_body" /\ pb_pc' # pb_pc)
          => LET len    == Len(playback_audio)
                 pos    == playback_position
                 slots  == IF is_playing /\ pos < 2 * len
                           THEN Min2(Len(pb_out'), 2 * len - pos) ELSE 0
                 pruned == len - Len(playback_audio')
             IN  /\ playback_position' \in {0, 1}
                 /\ pruned = (pos + slots) \div 2
                 /\ playback_audio' = SubSeq(playback_audio, pruned + 1, len)
                 /\ slots > 0 => playback_position' = pos + slots - 2 * pruned]_vars

\* C7 witness: a callback of three frames has emitted a sample twice and the
\* next one once, pruned the first and left the cursor at 1
C7_Witness ==
    /\ pb_pc = "p_rel_pos"
    /\ Len(pb_out) = 3 /\ \A i \in 1..3 : pb_out[i] # 0
    /\ pb_out[1] = pb_out[2] /\ pb_out[3] # pb_out[2]
    /\ playback_position = 1 /\ playback_audio # <<>> /\ is_playing

\* the PCM16 value of a sample: clamped to [-1, 1], scaled by 32767 and
\* truncated toward zero
Quantizes(x, p) ==
    LET c == IF x > F32One THEN F32One ELSE IF x < -F32One THEN -F32One ELSE x
    IN  /\ p \in -32767..32767
        /\ c >= 0 => /\ p >= 0
                     /\ p * F32One <= c * 32767
                     /\ c * 32767 < (p + 1) * F32One
        /\ c < 0 => /\ p <= 0
                    /\ p * F32One >= c * 32767
                    /\ c * 32767 > (p - 1) * F32One

\* C8: a timer tick in an active conversation that finds the capture lock
\* free sends, when CaptureBuffer holds n > 0 samples, exactly one
\* input_audio_buffer.append whose payload is the base64 text of 2n bytes,
\* the little-endian PCM16 values of those samples in order, empties the
\* buffer and sets has_sent_audio; with the buffer empty it sends nothing and
\* leaves has_sent_audio alone.  The rest of the tick sends nothing more.
C8_TimerSendsOneChunk ==
    [][/\ (/\ ctl_pc = "idle" /\ ctl_pc' # "idle" /\ ctl_ev' = "timer"
           /\ conversation_active /\ Free(LR))
             => ctl_pc' = "t_send" /\ lock'[LR] = "ctl" /\ outbox' = <<>>
       /\ (ctl_ev = "timer" /\ ctl_pc = "t_send" /\ ctl_pc' # ctl_pc)
             => LET n == Len(recorded_audio)
                IN  IF n > 0
                    THEN /\ Len(outbox') = 1
                         /\ outbox'[1].type = "input_audio_buffer.append"
                         /\ LET bytes == Base64Decode(outbox'[1].audio)
                            IN  /\ bytes # B64Err
                                /\ Len(bytes) = 2 * n
                                /\ \A i \in 1..n :
                                      Quantizes(recorded_audio[i],
                                                FromLeBytes(bytes[2 * i - 1],
                                                            bytes[2 * i]))
                         /\ recorded_audio' = <<>>
                         /\ has_sent_audio'
                    ELSE /\ outbox' = <<>>
                         /\ recorded_audio' = <<>>
                         /\ has_sent_audio' = has_sent_audio
       /\ (Handling("timer") /\ ctl_pc # "t_send") => outbox' = outbox]_vars

\* C8 witness: a tick has sent a chunk that has an out-of-range sample in
\* it, and CaptureBuffer is empty
C8_Witness ==
    /\ ctl_ev = "timer" /\ ctl_pc = "t_check"
    /\ Len(outbox) = 1 /\ has_sent_audio /\ recorded_audio = <<>>
    /\ Len(sent_audio) >= 2
    /\ \E i \in DOMAIN sent_audio : sent_audio[i] < -F32One

\* C9: the chunks sent so far followed by CaptureBuffer are the samples the
\* capture callback has appended, in order; outside a capture callback's
\* push these are the decimated samples of the frames it accepted, whole,
\* and during a push a prefix of them.
C9_NoLossNoDuplication ==
    /\ sent_audio \o recorded_audio = appended
    /\ Len(appended) <= Len(accepted)
    /\ appended = SubSeq(accepted, 1, Len(appended))
    /\ lock[LR] # "cap" => appended = accepted

\* C9 witness: a tick found the capture callback in the middle of a frame,
\* with a chunk already sent and samples waiting
C9_Witness ==
    /\ lock[LR] = "cap" /\ cap_pc = "c_push" /\ cap_i > 0 /\ cap_i < Len(cap_frame)
    /\ ctl_ev = "timer" /\ ctl_pc = "t_check"
    /\ sent_audio # <<>> /\ recorded_audio # <<>>

\* the slots of an output buffer are all silence
Silent(out) == Len(out) > 0 /\ \A i \in DOMAIN out : out[i] = 0

\* the step on which a try_lock of the capture callback fails
CapTryFails ==
    \/ cap_pc = "idle" /\ cap_pc' = "c_ret"
    \/ cap_pc = "c_check" /\ cap_pc' = "c_end" /\ is_recording

\* the step on which a try_lock of the playback callback fails
PbTryFails ==
    \/ pb_pc = "idle" /\ pb_pc' = "p_ret"
    \/ pb_pc = "p_pos" /\ pb_pc' = "p_rel_playback"
    \/ pb_pc = "p_playing" /\ pb_pc' = "p_rel_pos"

\* C10: a callback that the device invokes, or that is inside an invocation,
\* always has a step to take, whoever holds the locks.  The step on which
\* one of its try_locks fails changes no shared cell and no lock, and the
\* playback callback's output is then silence; from there the callback only
\* drops the guards it holds and returns, leaving the cells as they are.
C10_CallbacksNeverWait ==
    [][/\ ("output" \in devices /\ ~panicked) => ENABLED PbNext
       /\ ("input" \in devices /\ ~panicked /\ (cap_pc # "idle" \/ hw_clock < MaxHw))
             => ENABLED CapNext
       /\ CapTryFails => UNCHANGED <<audio, lock>>
       /\ PbTryFails => UNCHANGED <<audio, lock>> /\ Silent(pb_out')
       /\ (cap_pc \in {"c_ret", "c_end"} /\ cap_pc' # cap_pc)
             => /\ cap_pc' = "idle"
                /\ UNCHANGED audio
                /\ \A l \in Locks : lock'[l] \in {lock[l], "free"}
       /\ (pb_pc \in {"p_rel_pos", "p_rel_playback", "p_ret"} /\ pb_pc' # pb_pc)
             => /\ pb_pc' \in {"p_rel_playback", "p_ret", "idle"}
                /\ UNCHANGED audio
                /\ pb_pc' # "idle" => pb_out' = pb_out
                /\ \A l \in Locks : lock'[l] \in {lock[l], "free"}]_vars

\* C10 witness: the playback callback found playback_position held by the
\* event loop, gave up with audio still queued and is_playing true
C10_Witness ==
    /\ pb_pc = "p_rel_playback" /\ lock[LPP] = "ctl" /\ lock[LP] = "pb"
    /\ Silent(pb_out)
    /\ playback_audio # <<>> /\ is_playing

\* C4: once the server and the user are quiet in an active conversation with
\* interruptions disabled, the assistant's turn over (response.done handled),
\* the microphone still muted and PlaybackBuffer drained, a timer tick
\* eventually sets is_recording.
C4_TurnResumes ==
    (/\ quiet /\ conversation_active /\ ~interruptions_enabled
     /\ ~ai_is_responding /\ ~is_recording
     /\ playback_audio = <<>>) ~> is_recording

\* C4 witness: response.done left the microphone muted because audio was
\* queued, the playback callback has drained it, and a tick of the quiet
\* period holds is_recording on its way to unmute
C4_Witness ==
    /\ quiet /\ ctl_ev = "timer" /\ ctl_pc = "t_resuming" /\ lock[LIR] = "ctl"
    /\ conversation_active /\ ~interruptions_enabled /\ ~ai_is_responding
    /\ current_assistant_item_id = None
    /\ playback_audio = <<>> /\ ~is_playing
    /\ ~is_recording


\* C16: the handler of a response.audio.delta in an active conversation
\* returns with ai_is_responding true and is_recording equal to the
\* interruptions toggle; with no conversation active no step of the handler
\* changes is_recording.
C16_DeltaSetsRecording ==
    [][/\ (/\ Returns("response.audio.delta")
           /\ conversation_active /\ ~user_is_interrupting)
             => ai_is_responding' /\ is_recording' = interruptions_enabled
       /\ (/\ ctl_ev' = "response.audio.delta"
           /\ (ctl_pc # "idle" \/ ctl_pc' # "idle")
           /\ ~conversation_active)
             => ai_is_responding' /\ is_recording' = is_recording]_vars

\* C16 witness: with the toggle off a delta was handled in an active
\* conversation; its samples are queued and the microphone is muted
C16_Witness ==
    /\ ctl_ev = "response.audio.delta" /\ ctl_pc = "idle"
    /\ conversation_active /\ ~interruptions_enabled /\ ~user_is_interrupting
    /\ ai_is_responding /\ ~is_recording
    /\ playback_audio # <<>> /\ is_playing

\* C17: the handler of an inbound error changes none of is_connected,
\* conversation_active, ai_is_responding, CaptureBuffer and PlaybackBuffer; in
\* an active conversation it returns with is_recording true, and with no
\* conversation active it leaves is_recording as it was.
C17_ErrorResumesRecording ==
    [][/\ (ErrorEvent \/ ErrorRecording)
             => UNCHANGED <<websocket, is_connected, conversation_active,
                            ai_is_responding, recorded_audio, playback_audio>>
       /\ (ErrorEvent /\ ~conversation_active)
             => ctl_pc' = "idle" /\ is_recording' = is_recording
       /\ (ErrorEvent /\ conversation_active) => ctl_pc' = "er_rec"
       /\ Returns("error") => conversation_active /\ is_recording']_vars

\* C17 witness: an error arrived while the assistant was speaking with the
\* toggle off; the handler has switched the muted microphone back on and the
\* queued audio is still there
C17_Witness ==
    /\ ctl_ev = "error" /\ ctl_pc = "idle"
    /\ conversation_active /\ ~interruptions_enabled /\ ai_is_responding
    /\ is_recording /\ playback_audio # <<>>


\* C18, as stated: the handler of input_audio_buffer.speech_stopped in an
\* active conversation returns with is_recording false, and while no other
\* protocol event and no user action arrives, is_recording stays false:
\* timer ticks alone do not switch it back on.
C18_StaysMutedWhileAwaiting ==
    [][/\ (Returns("input_audio_buffer.speech_stopped") /\ conversation_active)
             => ~is_recording'
       /\ ~is_recording => ~is_recording']_vars

\* C19, as stated: the handler of a response.audio.delta that decodes and
\* passes the guards returns with the decoded samples at the end of
\* PlaybackBuffer, whatever the playback callback is doing.
C19_NoDeltaDropped ==
    [][(/\ Returns("response.audio.delta")
        /\ DeltaSamples(ctl_delta) # B64Err
        /\ push_allowed)
          => LET S == DeltaSamples(ctl_delta)
                 n == Len(playback_audio')
             IN  /\ n >= Len(S)
                 /\ SubSeq(playback_audio', n - Len(S) + 1, n) = S]_vars

\* C20, as stated: with the toggle off, whenever a conversation is active
\* and assistant audio is pending playback (PlaybackBuffer non-empty and
\* is_playing true), is_recording is false.
C20_MicOffWhileSpeakerOn ==
    (conversation_active /\ playback_audio # <<>> /\ is_playing) => ~is_recording


\* C11, as stated: when reset_all (stop_conversation) has completed, the
\* periodic timer is cancelled, is_recording and conversation_active are
\* false and PlaybackBuffer is empty, whatever the callbacks were doing.
C11_StopLeavesNothingRunning ==
    (ctl_ev = "reset" /\ ctl_pc = "idle" /\ ~panicked)
        => /\ audio_streaming_timer = NoTimer
           /\ ~is_recording
           /\ ~conversation_active
           /\ playback_audio = <<>>

\* C12: a step that hands an input_audio_buffer.append to the transport is
\* taken only while a conversation is active: none after the conversation
\* was stopped (by reset or by the transport closing) and before the next
\* one starts, whatever CaptureBuffer holds and whatever timer events arrive.
C12_NoSendAfterStop ==
    [][(/\ outbox' # outbox
        /\ \E i \in DOMAIN outbox' : outbox'[i].type = "input_audio_buffer.append")
          => conversation_active /\ conversation_active']_vars

\* C12 witness: a conversation that had sent audio was stopped by reset with
\* samples left in CaptureBuffer, and a timer event delivered afterwards was
\* ignored
C12_Witness ==
    /\ ctl_ev = "timer_ignored" /\ ctl_pc = "idle"
    /\ ~conversation_active /\ audio_streaming_timer = NoTimer
    /\ websocket = "closed"
    /\ recorded_audio # <<>> /\ sent_audio # <<>>
    /\ outbox = <<>>

\* C13, as stated: once a transport Closed or Error event has been handled,
\* is_connected and conversation_active are false; and a transport is opened
\* only by the connect action.
C13_TransportFailureDisconnects ==
    [][/\ (ctl_ev' \in {"ws_closed", "ws_error"} /\ ctl_pc' = "idle")
             => ~is_connected' /\ ~conversation_active'
       /\ (websocket' = "open" /\ websocket' # websocket)
             => ctl_ev' = "connect"]_vars

\* C14, as stated: once a reset or a transport Closed event has been
\* handled, every field of the session has its initial value.
C14_SessionFieldsReset ==
    (ctl_ev \in {"reset", "ws_closed"} /\ ctl_pc = "idle" /\ ~panicked)
        => /\ ~is_connected /\ ~conversation_active
           /\ ~ai_is_responding /\ ~user_is_interrupting
           /\ current_assistant_item_id = None
           /\ ~has_sent_audio
           /\ current_transcript = 0

\* C15, as stated: no sequence of user actions, timer ticks, audio callbacks
\* and transport events aborts the process.
C15_NeverAborts == ~panicked


\* C27, as stated: the running transcript never exceeds the budget of 500,
\* whatever the length of the deltas handled.
C27_TranscriptBounded == current_transcript <= TranscriptBudget

\* C28, as stated: in every reachable state is_recording implies
\* conversation_active.
C28_MicHotOnlyInConversation == is_recording => conversation_active

\* C29, as stated: at most one interval timer is running at any time, and
\* none is running once stop_conversation (reset) has completed.
C29_OneTimer ==
    /\ Cardinality(timers) <= 1
    /\ (ctl_ev = "reset" /\ ctl_pc = "idle") => timers = {}


\* C21, as stated: after speech_started has interrupted a reply and before
\* the next response.done, the audio deltas that arrive are discarded:
\* PlaybackBuffer stays empty and is_playing stays false.
C21_InterruptedAudioDiscarded == playback_audio = <<>> /\ ~is_playing


\* C25, as stated: whenever an output callback that acquired the three
\* locks leaves PlaybackBuffer empty, it also leaves is_playing false and the
\* cursor at 0, the case of the last sample consumed exactly at the end of
\* the frame included.
C25_StopsWhenExhausted ==
    [][(pb_pc = "p_body" /\ pb_pc' # pb_pc /\ playback_audio' = <<>>)
          => (~is_playing' /\ playback_position' = 0)]_vars


\* C23: a step of the timer handler never changes PlaybackBuffer, is_playing
\* or the cursor, and it changes is_recording only from false to true and
\* only with PlaybackBuffer empty, the interruptions toggle off, a
\* conversation active and the AI not responding.
C23_TickOnlyResumes ==
    [][((ctl_pc = "idle" /\ ctl_pc' # "idle" /\ ctl_ev' = "timer")
        \/ Handling("timer"))
          => /\ UNCHANGED pbcells
             /\ is_recording' # is_recording
                  => /\ ~is_recording /\ is_recording'
                     /\ playback_audio = <<>> /\ ~interruptions_enabled
                     /\ conversation_active /\ ~ai_is_responding]_vars

\* C23 witness: a tick found PlaybackBuffer empty with the toggle off and
\* holds is_recording while the microphone is muted and the AI is still
\* responding, the case in which it must leave the microphone muted
C23_Witness ==
    /\ ctl_ev = "timer" /\ ctl_pc = "t_resuming" /\ lock[LIR] = "ctl"
    /\ conversation_active /\ ~interruptions_enabled
    /\ ai_is_responding /\ ~is_recording
    /\ playback_audio = <<>>


\* the output slots still to come: every sample of buf twice, in order, less
\* the pos slots already emitted
Upcoming(buf, pos) ==
    [k \in 1..(UpFactor * Len(buf) - pos) |-> buf[(pos + k - 1) \div UpFactor + 1]]

\* C24: an output callback that holds the three locks while playing writes
\* to its frames the next slots of the doubled stream, in order, and silence
\* to every frame after the stream is exhausted (to all of them when not
\* playing); what it leaves in PlaybackBuffer and the cursor is the doubled
\* stream less the slots written, whatever the frame count; and a push while
\* playing adds its samples, doubled, at the end of that stream.  So every
\* wire sample is emitted exactly twice, in order.
C24_EachSampleTwice ==
    [][/\ (pb_pc = "p_body" /\ pb_pc' # pb_pc)
             => LET todo  == Upcoming(playback_audio, playback_position)
                    slots == IF is_playing THEN Min2(Len(pb_out'), Len(todo)) ELSE 0
                IN  /\ \A i \in DOMAIN pb_out' :
                          pb_out'[i] = IF i <= slots THEN todo[i] ELSE 0
                    /\ Upcoming(playback_audio', playback_position')
                         = SubSeq(todo, slots + 1, Len(todo))
       /\ (ctl_pc = "ad_extend" /\ ctl_pc' = "idle" /\ seen.playing)
             => Upcoming(playback_audio', playback_position')
                  = Upcoming(playback_audio, playback_position)
                      \o Upcoming(DeltaSamples(ctl_delta), 0)]_vars

\* C24 witness: a callback of three frames that started in the middle of a
\* sample has written its second copy and both copies of the next sample,
\* and a push that found is_playing true is about to append
C24_Witness ==
    /\ pb_pc = "p_ret"
    /\ Len(pb_out) = 3 /\ \A i \in 1..3 : pb_out[i] # 0
    /\ pb_out[1] # pb_out[2] /\ pb_out[2] = pb_out[3]
    /\ ctl_pc = "ad_extend" /\ seen.playing
    /\ DeltaSamples(ctl_delta) # <<>>


\* the frames C26 is about: binary frames, text that does not decode, and
\* the event types that fall to the catch-all arm
Dropped == {"ws_binary", "parse_error", "other",
            "response.audio.done", "response.text.delta"}

\* C26: handling a binary frame, an undecodable text frame or an event of
\* the catch-all arm changes no session state, neither buffer, no flag, no
\* lock and no timer, and sends nothing.
C26_UnknownFramesDropped ==
    [][(/\ ctl_pc = "idle" /\ ctl_pc' = "idle"
        /\ ctl_ev' \in Dropped
        /\ UNCHANGED <<capv, pbv>>)
          => /\ UNCHANGED <<audio, lock, sess, timers, hist>>
             /\ outbox' = <<>>]_vars

\* C26 witness: text that does not decode has just been dropped in the
\* middle of a reply, with audio queued and playing
C26_Witness ==
    /\ ctl_ev = "parse_error" /\ ctl_pc = "idle" /\ outbox = <<>>
    /\ conversation_active /\ is_connected /\ ai_is_responding
    /\ current_assistant_item_id # None
    /\ playback_audio # <<>> /\ is_playing


\* C22, as stated: in an active conversation with interruptions disabled,
\* once the server and the user are quiet with the microphone muted and the
\* AI not responding, fair ticks and callbacks eventually set is_recording.
C22_NeverMutedForever ==
    (/\ quiet /\ conversation_active /\ ~interruptions_enabled
     /\ ~is_recording /\ ~ai_is_responding) ~> is_recording


\* C30: no handler of the event loop waits for a mutex for ever: every
\* handler that has begun runs to its end, start_conversation, reset, the
\* protocol handlers, the timer handler and add_audio_to_playback (which
\* waits for playback_position with two guards held) included; and a mutex
\* held by a callback, for which a handler about to begin may wait, is
\* released when the callback returns, which it always does.
C30_NoDeadlock ==
    /\ []<>(ctl_pc = "idle")
    /\ []<>(cap_pc = "idle")
    /\ []<>(pb_pc = "idle")
    /\ [](\A l \in Locks :
             /\ lock[l] = "cap" => cap_pc # "idle"
             /\ lock[l] = "pb" => pb_pc # "idle"
             /\ lock[l] = "ctl" => ctl_pc # "idle")

\* C30 witness: start_conversation waits for playback_audio while an output
\* callback holds it together with the other two playback mutexes
C30_Witness ==
    /\ ctl_pc = "sc_clear_pb"
    /\ lock[LP] = "pb" /\ lock[LPP] = "pb" /\ lock[LIP] = "pb"


\* C31: a conversation is active only while connected (conversation_active
\* implies is_connected in every state), and a session.updated handled while
\* is_connected is false starts no conversation, sends nothing (no
\* response.create), starts no timer and touches no buffer, flag or mutex.
C31_ActiveOnlyWhileConnected ==
    /\ [](conversation_active => is_connected)
    /\ [][(/\ ctl_pc = "idle" /\ ctl_ev' = "session.updated"
           /\ ~is_connected
           /\ UNCHANGED <<capv, pbv>>)
             => /\ ctl_pc' = "idle" /\ outbox' = <<>>
                /\ UNCHANGED <<conversation_active, is_connected,
                               audio_streaming_timer, timers, audio, lock>>]_vars

\* C31 witness: the transport is open but the session is not connected (no
\* session.created yet, or the transport reported Closed), and a
\* session.updated has just been handled without starting anything
C31_Witness ==
    /\ ctl_ev = "session.updated" /\ ctl_pc = "idle"
    /\ websocket = "open" /\ ~is_connected
    /\ ~conversation_active /\ outbox = <<>>
    /\ audio_streaming_timer = NoTimer

====
